---- MODULE Spec2Model ----
(***************************************************************************)
(* The recursive-descent parser of src/src/parser.rs as a state machine.   *)
(*                                                                         *)
(* The call stack of the Rust functions is the variable `stack`; a value   *)
(* a callee has returned and its caller has not yet consumed is `ret`.     *)
(* Every call of lexer.lex() is one step.  The Lexer is an external        *)
(* collaborator that produces tokens on demand: `input` holds the tokens   *)
(* it has produced so far, `pos` how many of them the parser has pulled,   *)
(* `eof` whether it has answered "no token".  Token texts are sequences of *)
(* one-character strings; isize is taken to be 64 bits wide.               *)
(***************************************************************************)
EXTENDS Integers, Sequences, FiniteSets, TLC

\* ------------------------------------------------------------- bounds
\* Longest token stream the Lexer produces from texts of every sort.
MaxLen == 7
\* Longest token stream the Lexer produces from plain texts.
MaxPlain == 9
\* Longest token stream of an input that is parsed more than once.
MaxShort == 5
\* Most top-level expressions after which the Lexer still produces a token.
MaxTop == 2
\* Tokens the Lexer places on one source line.
TokensPerLine == 3

\* ------------------------------------------------------------- tokens
TokenType ==
    {"Integer", "Float", "String", "BrackOpen", "BrackClose",
     "CurlyOpen", "CurlyClose", "Comma", "Colon"}

\* Texts of the Integer tokens the Lexer is given.
PlainIntegerText == <<"7">>
IsizeMaxText ==
    <<"9","2","2","3","3","7","2","0","3","6","8","5","4","7","7","5","8","0","7">>
IsizeMaxPlus1Text ==
    <<"9","2","2","3","3","7","2","0","3","6","8","5","4","7","7","5","8","0","8">>
TwentyNinesText ==
    <<"9","9","9","9","9","9","9","9","9","9","9","9","9","9","9","9","9","9","9","9">>
IntegerTexts ==
    {<<"-","0","7">>, IsizeMaxText, IsizeMaxPlus1Text, TwentyNinesText, <<"7","x">>}

FloatTexts == {<<"1",".","5","0">>, <<".">>}

StringTexts == {<<"a">>}

PunctText(kind) ==
    CASE kind = "BrackOpen"  -> <<"[">>
      [] kind = "BrackClose" -> <<"]">>
      [] kind = "CurlyOpen"  -> <<"{">>
      [] kind = "CurlyClose" -> <<"}">>
      [] kind = "Comma"      -> <<",">>
      [] kind = "Colon"      -> <<":">>

\* The texts of the tokens of one kind in an input of the given sort: one
\* Integer text and the punctuation in a "plain" input, every text above in
\* an input of the sorts "all" and "short".
TokenTexts(kind, srt) ==
    CASE kind = "Integer" -> IF srt = "plain" THEN {PlainIntegerText} ELSE IntegerTexts
      [] kind = "Float"   -> IF srt = "plain" THEN {} ELSE FloatTexts
      [] kind = "String"  -> IF srt = "plain" THEN {} ELSE StringTexts
      [] OTHER            -> {PunctText(kind)}

\* The longest token stream of an input of the given sort.
LenBound(srt) ==
    CASE srt = "all"   -> MaxLen
      [] srt = "plain" -> MaxPlain
      [] srt = "short" -> MaxShort

\* Source position the Lexer reports for the i-th token of the stream.
LineOf(i) == 1 + ((i - 1) \div TokensPerLine)
ColumnOf(i) == 1 + 2 * ((i - 1) % TokensPerLine) + (IF LineOf(i) = 1 THEN 2 ELSE 0)

Token(kind, value, i) ==
    [kind |-> kind, value |-> value, line |-> LineOf(i), column |-> ColumnOf(i)]

\* The tokens the Lexer can produce as the i-th of a stream.
TokensAt(i, srt) ==
    {Token(kv[1], kv[2], i) :
        kv \in UNION {{<<k, v>> : v \in TokenTexts(k, srt)} : k \in TokenType}}

NoToken == [kind |-> "None", value |-> <<>>, line |-> 0, column |-> 0]

\* Option<Token>
Some(token) == [some |-> TRUE, token |-> token]
None == [some |-> FALSE, token |-> NoToken]

\* ------------------------------------------------- scalar conversions
Digits == {"0","1","2","3","4","5","6","7","8","9"}

DigitVal(c) ==
    CASE c = "0" -> 0 [] c = "1" -> 1 [] c = "2" -> 2 [] c = "3" -> 3
      [] c = "4" -> 4 [] c = "5" -> 5 [] c = "6" -> 6 [] c = "7" -> 7
      [] c = "8" -> 8 [] c = "9" -> 9

\* 2^63 - 1 and 2^63 as digit sequences: the magnitudes isize can hold.
IsizeMaxMag == <<9,2,2,3,3,7,2,0,3,6,8,5,4,7,7,5,8,0,7>>
IsizeMinMag == <<9,2,2,3,3,7,2,0,3,6,8,5,4,7,7,5,8,0,8>>

RECURSIVE StripZeros(_)
StripZeros(ds) ==
    IF Len(ds) > 1 /\ Head(ds) = 0 THEN StripZeros(Tail(ds)) ELSE ds

RECURSIVE MagLeq(_, _)
\* a <= b for magnitudes without leading zeros
MagLeq(a, b) ==
    IF Len(a) # Len(b) THEN Len(a) < Len(b)
    ELSE IF a = <<>> THEN TRUE
    ELSE IF Head(a) # Head(b) THEN Head(a) < Head(b)
    ELSE MagLeq(Tail(a), Tail(b))

\* ParseIsize without the range check.
ParseIsize_Unchecked(text) ==
    LET neg  == Len(text) > 0 /\ Head(text) = "-"
        body == IF neg THEN Tail(text) ELSE text
    IN  IF body = <<>> \/ \E i \in 1..Len(body) : body[i] \notin Digits
        THEN [ok |-> FALSE, value |-> [neg |-> FALSE, mag |-> <<0>>]]
        ELSE LET mag == StripZeros([i \in 1..Len(body) |-> DigitVal(body[i])])
             IN  [ok |-> TRUE, value |-> [neg |-> neg /\ mag # <<0>>, mag |-> mag]]

\* str::parse::<isize>: an optional '-' then one or more decimal digits,
\* accumulated with checked arithmetic.  A value is [neg, mag] with mag the
\* magnitude's digits without leading zeros.
ParseIsize(text) ==
    LET neg  == Len(text) > 0 /\ Head(text) = "-"
        body == IF neg THEN Tail(text) ELSE text
    IN  IF body = <<>> \/ \E i \in 1..Len(body) : body[i] \notin Digits
        THEN [ok |-> FALSE, value |-> [neg |-> FALSE, mag |-> <<0>>]]
        ELSE LET mag == StripZeros([i \in 1..Len(body) |-> DigitVal(body[i])])
             IN  IF MagLeq(mag, IF neg THEN IsizeMinMag ELSE IsizeMaxMag)
                 THEN [ok |-> TRUE,
                       value |-> [neg |-> neg /\ mag # <<0>>, mag |-> mag]]
                 ELSE [ok |-> FALSE, value |-> [neg |-> FALSE, mag |-> <<0>>]]

RECURSIVE StripTrailingZeros(_)
StripTrailingZeros(ds) ==
    IF Len(ds) > 0 /\ ds[Len(ds)] = 0
    THEN StripTrailingZeros(SubSeq(ds, 1, Len(ds) - 1)) ELSE ds

\* str::parse::<f64> on the decimal texts digits [ '.' digits ] with an
\* optional '-': the value is [neg, mant, frac], mant the significant
\* digits and frac the number of them after the decimal point.
ParseF64(text) ==
    LET neg  == Len(text) > 0 /\ Head(text) = "-"
        body == IF neg THEN Tail(text) ELSE text
        dots == {i \in 1..Len(body) : body[i] = "."}
        bad  == [ok |-> FALSE, value |-> [neg |-> FALSE, mant |-> <<0>>, frac |-> 0]]
    IN  IF \/ Cardinality(dots) > 1
           \/ Len(body) - Cardinality(dots) = 0
           \/ \E i \in 1..Len(body) : body[i] \notin Digits \cup {"."}
        THEN bad
        ELSE LET dot  == IF dots = {} THEN Len(body) + 1 ELSE CHOOSE i \in dots : TRUE
                 int  == [i \in 1..(dot - 1) |-> DigitVal(body[i])]
                 fr   == StripTrailingZeros(
                            [i \in 1..(Len(body) - dot) |-> DigitVal(body[dot + i])])
                 mant == StripZeros(int \o fr)
             IN  [ok |-> TRUE,
                  value |-> [neg |-> neg, mant |-> IF mant = <<>> THEN <<0>> ELSE mant,
                             frac |-> Len(fr)]]

\* ------------------------------------------------------------ the AST
NoNode == [type |-> "None"]

Integer(value, line, column) ==
    [type |-> "Integer", value |-> value, line |-> line, column |-> column]
Float(value, line, column) ==
    [type |-> "Float", value |-> value, line |-> line, column |-> column]
String(value, line, column) ==
    [type |-> "String", value |-> [text |-> value], line |-> line, column |-> column]
Expressions(children) ==
    [type |-> "Expressions", children |-> children]
\* Array with line and column exchanged.
Array_ColumnLine(values, line, column) ==
    [type |-> "Array", values |-> values, line |-> column, column |-> line]
Array(values, line, column) ==
    [type |-> "Array", values |-> values, line |-> line, column |-> column]
Hash(pairs, line, column) ==
    [type |-> "Hash", pairs |-> pairs, line |-> line, column |-> column]

ParserError == {"EndOfInput", "InvalidTokenValue", "InvalidToken"}

\* ParserResult, and the absence of one
Ok(node) == [kind |-> "Ok", node |-> node, err |-> "None"]
Err(err) == [kind |-> "Err", node |-> NoNode, err |-> err]
NoRet == [kind |-> "None", node |-> NoNode, err |-> "None"]

\* -------------------------------------------------------------- state
VARIABLES
    sort,     \* the sort of input text the Lexer was given, see TokenTexts
    input,    \* the tokens the Lexer has produced for the input text
    pos,      \* how many of them the current Lexer has handed out
    eof,      \* the Lexer has answered "no token"
    stack,    \* the frames of parse_expressions / parse_array / parse_hash
    ret,      \* the ParserResult a callee returned to the frame on top
    result,   \* what parse returned, NoRet while it runs
    last,     \* the latest call of lexer.lex(): its call site, the error raised on it
    earlier   \* what the earlier invocations of parse on this input returned

vars == <<sort, input, pos, eof, stack, ret, result, last, earlier>>

Frame(fn, token, pc) ==
    [fn |-> fn, token |-> token, items |-> <<>>, key |-> NoNode, pc |-> pc]

Top == stack[Len(stack)]
Pop == SubSeq(stack, 1, Len(stack) - 1)
SetTop(frame) == [stack EXCEPT ![Len(stack)] = frame]

\* --------------------------------------------------------- the Lexer
\* The input text is not known to have ended, and is within the bounds.
MayProduce ==
    /\ earlier = <<>>
    /\ ~eof
    /\ Len(input) < LenBound(sort)
    /\ Len(stack) = 1 => Len(stack[1].items) < MaxTop

\* What lexer.lex() can answer in the current state.
LexOutcomes ==
    IF pos < Len(input) THEN {Some(input[pos + 1])}
    ELSE {None} \cup (IF MayProduce THEN {Some(t) : t \in TokensAt(pos + 1, sort)} ELSE {})

NoLex == [site |-> "None", err |-> "None"]

\* The record of a call of lexer.lex() at a site, after which r was returned.
Lexed(site, r) == [site |-> site, err |-> r.err]

\* lexer.lex() answering t
Lex(t) ==
    /\ t \in LexOutcomes
    /\ IF t.some
       THEN /\ pos' = pos + 1
            /\ input' = IF pos < Len(input) THEN input ELSE Append(input, t.token)
            /\ eof' = eof
       ELSE /\ eof' = TRUE
            /\ UNCHANGED <<input, pos>>

\* ------------------------------------------------------------ parser
parse_integer(token) ==
    LET conv == ParseIsize(token.value)
    IN  IF conv.ok THEN Ok(Integer(conv.value, token.line, token.column))
        ELSE Err("InvalidTokenValue")

parse_float(token) ==
    LET conv == ParseF64(token.value)
    IN  IF conv.ok THEN Ok(Float(conv.value, token.line, token.column))
        ELSE Err("InvalidTokenValue")

parse_string(token) ==
    Ok(String(token.value, token.line, token.column))

Init ==
    /\ sort \in {"all", "plain"}
    /\ input = <<>>
    /\ pos = 0
    /\ eof = FALSE
    /\ stack = <<>>
    /\ ret = NoRet
    /\ result = NoRet
    /\ last = NoLex
    /\ earlier = <<>>

\* parse: a Lexer over the input, then parse_expressions with no nodes yet.
parse ==
    /\ stack = <<>>
    /\ result = NoRet
    /\ pos' = 0
    /\ eof' = FALSE
    /\ stack' = <<Frame("parse_expressions", NoToken, "loop")>>
    /\ UNCHANGED <<sort, input, ret, result, last, earlier>>

\* ExpressionResult that takes a token of no expression for the end of input.
ExpressionResult_OtherEndOfInput(t) ==
    IF ~t.some THEN Err("EndOfInput")
    ELSE CASE t.token.kind = "Integer"   -> parse_integer(t.token)
           [] t.token.kind = "Float"     -> parse_float(t.token)
           [] t.token.kind = "String"    -> parse_string(t.token)
           [] t.token.kind = "BrackOpen" -> NoRet
           [] t.token.kind = "CurlyOpen" -> NoRet
           [] OTHER                      -> Err("EndOfInput")

\* ExpressionResult with the Float arm calling parse_integer.
ExpressionResult_FloatAsInteger(t) ==
    IF ~t.some THEN Err("EndOfInput")
    ELSE CASE t.token.kind = "Integer"   -> parse_integer(t.token)
           [] t.token.kind = "Float"     -> parse_integer(t.token)
           [] t.token.kind = "String"    -> parse_string(t.token)
           [] t.token.kind = "BrackOpen" -> NoRet
           [] t.token.kind = "CurlyOpen" -> NoRet
           [] OTHER                      -> Err("InvalidToken")

\* What parse_expression answers at once for the lex outcome t; NoRet when
\* it goes on into parse_array or parse_hash.
ExpressionResult(t) ==
    IF ~t.some THEN Err("EndOfInput")
    ELSE CASE t.token.kind = "Integer"   -> parse_integer(t.token)
           [] t.token.kind = "Float"     -> parse_float(t.token)
           [] t.token.kind = "String"    -> parse_string(t.token)
           [] t.token.kind = "BrackOpen" -> NoRet
           [] t.token.kind = "CurlyOpen" -> NoRet
           [] OTHER                      -> Err("InvalidToken")

\* ExpressionCall with loops that look for the closing token first.
ExpressionCall_CloseFirst(t) ==
    IF t.token.kind = "BrackOpen" THEN Frame("parse_array", t.token, "next")
    ELSE Frame("parse_hash", t.token, "next")

\* The frame parse_expression calls into for the lex outcome t.
ExpressionCall(t) ==
    IF t.token.kind = "BrackOpen" THEN Frame("parse_array", t.token, "elem")
    ELSE Frame("parse_hash", t.token, "key")

\* parse_expression, called by the frame on top: pull one token, dispatch.
parse_expression ==
    /\ stack # <<>>
    /\ ret = NoRet
    /\ Top.pc \in {"loop", "elem", "key", "value"}
    /\ \E t \in LexOutcomes :
        /\ Lex(t)
        /\ ret' = ExpressionResult(t)
        /\ stack' = IF t.some /\ t.token.kind \in {"BrackOpen", "CurlyOpen"}
                    THEN Append(stack, ExpressionCall(t))
                    ELSE stack
    /\ last' = Lexed("parse_expression", ret')
    /\ UNCHANGED <<sort, result, earlier>>

\* ExpressionsOnErr that ends the loop on every error.
ExpressionsOnErr_BreakOnAny(nodes, err) == Ok(Expressions(nodes))

\* ExpressionsOnErr that ends the loop only on an EndOfInput raised where an
\* expression was to start.
ExpressionsOnErr_BreakWhereExpected(nodes, err) ==
    IF err = "EndOfInput" /\ last.site = "parse_expression"
    THEN Ok(Expressions(nodes)) ELSE Err(err)

\* What parse_expressions does with an error of parse_expression.
ExpressionsOnErr(nodes, err) ==
    IF err = "EndOfInput" THEN Ok(Expressions(nodes)) ELSE Err(err)

\* parse_expressions whose loop goes on after EndOfInput.
parse_expressions_NoBreak ==
    /\ stack # <<>>
    /\ Top.fn = "parse_expressions"
    /\ ret # NoRet
    /\ IF ret.kind = "Ok"
       THEN /\ stack' = SetTop([Top EXCEPT !.items = Append(@, ret.node)])
            /\ result' = result
       ELSE IF ret.err = "EndOfInput"
       THEN /\ stack' = stack
            /\ result' = result
       ELSE /\ stack' = <<>>
            /\ result' = Err(ret.err)
    /\ ret' = NoRet
    /\ UNCHANGED <<sort, input, pos, eof, last, earlier>>

\* parse_expressions that returns after the first expression.
parse_expressions_First ==
    /\ stack # <<>>
    /\ Top.fn = "parse_expressions"
    /\ ret # NoRet
    /\ stack' = <<>>
    /\ result' = IF ret.kind = "Ok"
                  THEN Ok(Expressions(Append(Top.items, ret.node)))
                  ELSE ExpressionsOnErr(Top.items, ret.err)
    /\ ret' = NoRet
    /\ UNCHANGED <<sort, input, pos, eof, last, earlier>>

\* parse_expressions: the loop body, on parse_expression's return.
parse_expressions ==
    /\ stack # <<>>
    /\ Top.fn = "parse_expressions"
    /\ ret # NoRet
    /\ IF ret.kind = "Ok"
       THEN /\ stack' = SetTop([Top EXCEPT !.items = Append(@, ret.node)])
            /\ result' = result
       ELSE /\ stack' = <<>>
            /\ result' = ExpressionsOnErr(Top.items, ret.err)
    /\ ret' = NoRet
    /\ UNCHANGED <<sort, input, pos, eof, last, earlier>>

\* ArrayPush at the front.
ArrayPush_Front(values, node) == <<node>> \o values

\* values.push(node)
ArrayPush(values, node) == Append(values, node)

\* parse_array_push that skips an element in error and looks for the
\* separator after it.
parse_array_push_Recover ==
    /\ stack # <<>>
    /\ Top.fn = "parse_array"
    /\ Top.pc = "elem"
    /\ ret # NoRet
    /\ IF ret.kind = "Ok"
       THEN /\ stack' = SetTop([Top EXCEPT !.items = ArrayPush(@, ret.node), !.pc = "next"])
            /\ ret' = NoRet
       ELSE IF ret.err = "EndOfInput"
       THEN /\ stack' = Pop
            /\ ret' = ret
       ELSE /\ stack' = SetTop([Top EXCEPT !.pc = "next"])
            /\ ret' = NoRet
    /\ UNCHANGED <<sort, input, pos, eof, result, last, earlier>>

\* parse_array: values.push(try!(parse_expression(lexer)))
parse_array_push ==
    /\ stack # <<>>
    /\ Top.fn = "parse_array"
    /\ Top.pc = "elem"
    /\ ret # NoRet
    /\ IF ret.kind = "Ok"
       THEN /\ stack' = SetTop([Top EXCEPT !.items = ArrayPush(@, ret.node), !.pc = "next"])
            /\ ret' = NoRet
       ELSE /\ stack' = Pop
            /\ ret' = ret
    /\ UNCHANGED <<sort, input, pos, eof, result, last, earlier>>

\* ArrayNext with either closing token ending the array.
ArrayNext_AnyCloser(t) ==
    IF ~t.some THEN "EndOfInput"
    ELSE CASE t.token.kind = "Comma"      -> "continue"
           [] t.token.kind = "BrackClose" -> "break"
           [] t.token.kind = "CurlyClose" -> "break"
           [] OTHER                       -> "InvalidToken"

\* ArrayNext that takes the end of the input for the end of the array.
ArrayNext_CloseAtEnd(t) ==
    IF ~t.some THEN "break"
    ELSE CASE t.token.kind = "Comma"      -> "continue"
           [] t.token.kind = "BrackClose" -> "break"
           [] OTHER                       -> "InvalidToken"

\* What parse_array does with the token after an element: "continue",
\* "break", or the error it returns.
ArrayNext(t) ==
    IF ~t.some THEN "EndOfInput"
    ELSE CASE t.token.kind = "Comma"      -> "continue"
           [] t.token.kind = "BrackClose" -> "break"
           [] OTHER                       -> "InvalidToken"

\* parse_array: the token after an element, and the return.
parse_array_next ==
    /\ stack # <<>>
    /\ Top.fn = "parse_array"
    /\ Top.pc = "next"
    /\ \E t \in LexOutcomes :
        /\ Lex(t)
        /\ LET next == ArrayNext(t)
           IN  CASE next = "continue" ->
                        /\ stack' = SetTop([Top EXCEPT !.pc = "elem"])
                        /\ ret' = NoRet
                 [] next = "break" ->
                        /\ stack' = Pop
                        /\ ret' = Ok(Array(Top.items, Top.token.line, Top.token.column))
                 [] OTHER ->
                        /\ stack' = Pop
                        /\ ret' = Err(next)
    /\ last' = Lexed("parse_array", ret')
    /\ UNCHANGED <<sort, result, earlier>>

\* parse_hash: let key = try!(parse_expression(lexer))
parse_hash_key ==
    /\ stack # <<>>
    /\ Top.fn = "parse_hash"
    /\ Top.pc = "key"
    /\ ret # NoRet
    /\ IF ret.kind = "Ok"
       THEN /\ stack' = SetTop([Top EXCEPT !.key = ret.node, !.pc = "colon"])
            /\ ret' = NoRet
       ELSE /\ stack' = Pop
            /\ ret' = ret
    /\ UNCHANGED <<sort, input, pos, eof, result, last, earlier>>

\* next_token that takes a token of any kind.
next_token_AnyKind(t, kind) ==
    IF t.some THEN "token" ELSE "EndOfInput"

\* next_token!(lexer, kind): "token", or the error the macro returns.
next_token(t, kind) ==
    IF t.some
    THEN IF t.token.kind = kind THEN "token" ELSE "InvalidToken"
    ELSE "EndOfInput"

\* parse_hash: next_token!(lexer, Colon)
parse_hash_colon ==
    /\ stack # <<>>
    /\ Top.fn = "parse_hash"
    /\ Top.pc = "colon"
    /\ \E t \in LexOutcomes :
        /\ Lex(t)
        /\ LET got == next_token(t, "Colon")
           IN  IF got = "token"
               THEN /\ stack' = SetTop([Top EXCEPT !.pc = "value"])
                    /\ ret' = NoRet
               ELSE /\ stack' = Pop
                    /\ ret' = Err(got)
    /\ last' = Lexed("next_token", ret')
    /\ UNCHANGED <<sort, result, earlier>>

\* HashPush that replaces the pair of an equal key value.
HashPush_Dedup(pairs, key, value) ==
    LET same(k) == k.type = key.type /\ key.type \in {"Integer", "Float", "String"}
                   /\ k.value = key.value
    IN  IF \E j \in 1..Len(pairs) : same(pairs[j][1])
        THEN [j \in 1..Len(pairs) |->
                 IF same(pairs[j][1]) THEN <<key, value>> ELSE pairs[j]]
        ELSE Append(pairs, <<key, value>>)

\* pairs.push((key, value))
HashPush(pairs, key, value) == Append(pairs, <<key, value>>)

\* parse_hash: let value = try!(parse_expression(lexer)); pairs.push((key, value))
parse_hash_value ==
    /\ stack # <<>>
    /\ Top.fn = "parse_hash"
    /\ Top.pc = "value"
    /\ ret # NoRet
    /\ IF ret.kind = "Ok"
       THEN /\ stack' = SetTop([Top EXCEPT !.items = HashPush(@, Top.key, ret.node),
                                           !.key = NoNode, !.pc = "next"])
            /\ ret' = NoRet
       ELSE /\ stack' = Pop
            /\ ret' = ret
    /\ UNCHANGED <<sort, input, pos, eof, result, last, earlier>>

\* HashNext with either closing token ending the hash.
HashNext_AnyCloser(t) ==
    IF ~t.some THEN "EndOfInput"
    ELSE CASE t.token.kind = "Comma"      -> "continue"
           [] t.token.kind = "CurlyClose" -> "break"
           [] t.token.kind = "BrackClose" -> "break"
           [] OTHER                       -> "InvalidToken"

\* What parse_hash does with the token after a pair.
HashNext(t) ==
    IF ~t.some THEN "EndOfInput"
    ELSE CASE t.token.kind = "Comma"      -> "continue"
           [] t.token.kind = "CurlyClose" -> "break"
           [] OTHER                       -> "InvalidToken"

\* parse_hash: the token after a pair, and the return.
parse_hash_next ==
    /\ stack # <<>>
    /\ Top.fn = "parse_hash"
    /\ Top.pc = "next"
    /\ \E t \in LexOutcomes :
        /\ Lex(t)
        /\ LET next == HashNext(t)
           IN  CASE next = "continue" ->
                        /\ stack' = SetTop([Top EXCEPT !.pc = "key"])
                        /\ ret' = NoRet
                 [] next = "break" ->
                        /\ stack' = Pop
                        /\ ret' = Ok(Hash(Top.items, Top.token.line, Top.token.column))
                 [] OTHER ->
                        /\ stack' = Pop
                        /\ ret' = Err(next)
    /\ last' = Lexed("parse_hash", ret')
    /\ UNCHANGED <<sort, result, earlier>>

Next ==
    \/ parse
    \/ parse_expression
    \/ parse_expressions
    \/ parse_array_push
    \/ parse_array_next
    \/ parse_hash_key
    \/ parse_hash_colon
    \/ parse_hash_value
    \/ parse_hash_next

Spec == Init /\ [][Next]_vars

\* ------------------------------------------------- the program runs
\* parse over an input of integers and punctuation.
InitPlain ==
    /\ Init
    /\ sort = "plain"

\* A call that can go on does.
FairSpec == InitPlain /\ [][Next]_vars /\ WF_vars(Next)

\* ------------------------------------------ a caller that parses again
InitAgain ==
    /\ sort = "short"
    /\ input = <<>>
    /\ pos = 0
    /\ eof = FALSE
    /\ stack = <<>>
    /\ ret = NoRet
    /\ result = NoRet
    /\ last = NoLex
    /\ earlier = <<>>

\* parse_again on the Lexer of the earlier invocation.
parse_again_SameLexer ==
    /\ result # NoRet
    /\ earlier = <<>>
    /\ earlier' = <<result>>
    /\ result' = NoRet
    /\ last' = NoLex
    /\ stack' = <<Frame("parse_expressions", NoToken, "loop")>>
    /\ UNCHANGED <<sort, input, pos, eof, ret>>

\* parse called once more on the same input text, after it returned: a new
\* Lexer over the same tokens, and parse_expressions with no nodes yet.
parse_again ==
    /\ result # NoRet
    /\ earlier = <<>>
    /\ earlier' = <<result>>
    /\ result' = NoRet
    /\ pos' = 0
    /\ eof' = FALSE
    /\ last' = NoLex
    /\ stack' = <<Frame("parse_expressions", NoToken, "loop")>>
    /\ UNCHANGED <<sort, input, ret>>

NextAgain ==
    \/ Next
    \/ parse_again

SpecAgain == InitAgain /\ [][NextAgain]_vars

\* ------------------------------------------------- what the claims use
\* parse has returned.
Done == result # NoRet

\* The Integer and Float texts that convert, and what they convert to.
IntegerValue(text) ==
    CASE text = <<"7">>         -> [neg |-> FALSE, mag |-> <<7>>]
      [] text = <<"-","0","7">> -> [neg |-> TRUE, mag |-> <<7>>]
      [] text = IsizeMaxText    -> [neg |-> FALSE, mag |-> IsizeMaxMag]
      [] OTHER                  -> [neg |-> FALSE, mag |-> <<>>]
ValidIntegerTexts == {<<"7">>, <<"-","0","7">>, IsizeMaxText}
FloatValue(text) ==
    CASE text = <<"1",".","5","0">> -> [neg |-> FALSE, mant |-> <<1, 5>>, frac |-> 1]
      [] OTHER                      -> [neg |-> FALSE, mant |-> <<>>, frac |-> 0]
ValidFloatTexts == {<<"1",".","5","0">>}

\* The grammar of expressions, read over a token sequence s.  ExprEnd(s, i)
\* is the index just after the expression that starts with s[i], 0 when
\* there is no expression there, -1 when s ends inside it.
RECURSIVE ExprEnd(_, _), ArrayEnd(_, _), HashEnd(_, _)
ExprEnd(s, i) ==
    IF i > Len(s) THEN -1
    ELSE CASE s[i].kind = "Integer" ->
                  IF s[i].value \in ValidIntegerTexts THEN i + 1 ELSE 0
           [] s[i].kind = "Float" ->
                  IF s[i].value \in ValidFloatTexts THEN i + 1 ELSE 0
           [] s[i].kind = "String"    -> i + 1
           [] s[i].kind = "BrackOpen" -> ArrayEnd(s, i + 1)
           [] s[i].kind = "CurlyOpen" -> HashEnd(s, i + 1)
           [] OTHER                   -> 0
\* ... of the array whose next element starts with s[i]
ArrayEnd(s, i) ==
    LET e == ExprEnd(s, i)
    IN  IF e <= 0 THEN e
        ELSE IF e > Len(s) THEN -1
        ELSE IF s[e].kind = "Comma" THEN ArrayEnd(s, e + 1)
        ELSE IF s[e].kind = "BrackClose" THEN e + 1
        ELSE 0
\* ... of the hash whose next key starts with s[i]
HashEnd(s, i) ==
    LET k == ExprEnd(s, i)
    IN  IF k <= 0 THEN k
        ELSE IF k > Len(s) THEN -1
        ELSE IF s[k].kind # "Colon" THEN 0
        ELSE LET v == ExprEnd(s, k + 1)
             IN  IF v <= 0 THEN v
                 ELSE IF v > Len(s) THEN -1
                 ELSE IF s[v].kind = "Comma" THEN HashEnd(s, v + 1)
                 ELSE IF s[v].kind = "CurlyClose" THEN v + 1
                 ELSE 0

\* Where the complete top-level expressions of s from s[i] on start.
RECURSIVE TopStarts(_, _)
TopStarts(s, i) ==
    LET e == ExprEnd(s, i)
    IN  IF e <= 0 THEN <<>> ELSE <<i>> \o TopStarts(s, e)

\* "complete": s from s[i] on is a concatenation of complete expressions;
\* "open": s ends inside an array or hash; "malformed" otherwise.
RECURSIVE TopStatus(_, _)
TopStatus(s, i) ==
    IF i > Len(s) THEN "complete"
    ELSE LET e == ExprEnd(s, i)
         IN  IF e = 0 THEN "malformed"
             ELSE IF e = -1 THEN "open"
             ELSE TopStatus(s, e)

\* Where the complete elements of an array start, the first one at s[i].
RECURSIVE ElemStarts(_, _)
ElemStarts(s, i) ==
    LET e == ExprEnd(s, i)
    IN  IF e <= 0 THEN <<>>
        ELSE <<i>> \o (IF e <= Len(s) /\ s[e].kind = "Comma"
                       THEN ElemStarts(s, e + 1) ELSE <<>>)

\* Where the keys and values of the complete pairs of a hash start, the
\* first key at s[i]: a sequence of <<key start, value start>>.
RECURSIVE PairStarts(_, _)
PairStarts(s, i) ==
    LET k == ExprEnd(s, i)
        v == IF k > 0 /\ k <= Len(s) /\ s[k].kind = "Colon" THEN ExprEnd(s, k + 1) ELSE 0
    IN  IF v <= 0 THEN <<>>
        ELSE <<<<i, k + 1>>>> \o (IF v <= Len(s) /\ s[v].kind = "Comma"
                                  THEN PairStarts(s, v + 1) ELSE <<>>)

\* The node variant a token kind introduces.
Introduces(kind) ==
    CASE kind = "Integer"   -> "Integer"
      [] kind = "Float"     -> "Float"
      [] kind = "String"    -> "String"
      [] kind = "BrackOpen" -> "Array"
      [] kind = "CurlyOpen" -> "Hash"
      [] OTHER              -> "None"

Min(a, b) == IF a < b THEN a ELSE b

RECURSIVE Concat(_)
Concat(seqs) == IF seqs = <<>> THEN <<>> ELSE Head(seqs) \o Concat(Tail(seqs))

\* The node and every node below it, each with the index in s of the token
\* that starts the expression it stands for: children are paired, in order,
\* with the elements the grammar finds in s.
RECURSIVE Placed(_, _, _)
Placed(node, s, i) ==
    <<[node |-> node, at |-> i]>> \o
    (CASE node.type = "Array" /\ s[i].kind = "BrackOpen" ->
              LET at == ElemStarts(s, i + 1)
              IN  Concat([j \in 1..Min(Len(at), Len(node.values)) |->
                            Placed(node.values[j], s, at[j])])
       [] node.type = "Hash" /\ s[i].kind = "CurlyOpen" ->
              LET at == PairStarts(s, i + 1)
              IN  Concat([j \in 1..Min(Len(at), Len(node.pairs)) |->
                            Placed(node.pairs[j][1], s, at[j][1])
                            \o Placed(node.pairs[j][2], s, at[j][2])])
       [] OTHER -> <<>>)

\* The nodes of the tree parse returned, placed in the input.
PlacedNodes ==
    IF result.kind # "Ok" THEN <<>>
    ELSE LET at == TopStarts(input, 1)
         IN  Concat([j \in 1..Min(Len(at), Len(result.node.children)) |->
                       Placed(result.node.children[j], input, at[j])])

\* The node and every node below it.
RECURSIVE Below(_)
Below(node) ==
    <<node>> \o
    (CASE node.type = "Array" ->
              Concat([j \in 1..Len(node.values) |-> Below(node.values[j])])
       [] node.type = "Hash" ->
              Concat([j \in 1..Len(node.pairs) |->
                        Below(node.pairs[j][1]) \o Below(node.pairs[j][2])])
       [] node.type = "Expressions" ->
              Concat([j \in 1..Len(node.children) |-> Below(node.children[j])])
       [] OTHER -> <<>>)

\* The node is of the variant the token introduces, at the token's position,
\* and a scalar holds the token's value.
BuiltFrom(node, token) ==
    /\ node.type = Introduces(token.kind)
    /\ node.line = token.line
    /\ node.column = token.column
    /\ node.type = "Integer" => node.value = IntegerValue(token.value)
    /\ node.type = "Float" => node.value = FloatValue(token.value)
    /\ node.type = "String" => node.value = [text |-> token.value]

\* ------------------------------------------------------------ claims
\* C1: whenever the token stream is exhausted inside an array or hash that
\* has not been closed, parse fails with the error EndOfInput; the end of
\* the input is a success only between complete top-level expressions.
C1_OpenCompoundFailsEndOfInput ==
    (Done /\ eof) =>
        /\ TopStatus(input, 1) = "open" => result = Err("EndOfInput")
        /\ result.kind = "Ok" => TopStatus(input, 1) = "complete"

\* C2: a token stream that is a concatenation of k >= 0 complete expressions
\* is parsed to Ok(Expressions) with exactly k children, the j-th built from
\* the j-th expression and of the variant its introducing token calls for;
\* parse returns no error on a stream that such a concatenation starts with.
C2_CompleteStreamParsed ==
    Done =>
        /\ result.kind = "Err" => TopStatus(input, 1) = "malformed"
        /\ TopStatus(input, 1) = "complete" =>
              /\ result.kind = "Ok"
              /\ result.node.type = "Expressions"
              /\ LET at == TopStarts(input, 1)
                     children == result.node.children
                 IN  /\ Len(children) = Len(at)
                     /\ \A j \in 1..Len(at) :
                            /\ children[j].type = Introduces(input[at[j]].kind)
                            /\ BuiltFrom(children[j], input[at[j]])

C2_Witness ==
    /\ Done
    /\ TopStatus(input, 1) = "complete"
    /\ result.kind = "Ok"
    /\ Len(result.node.children) = 2
    /\ result.node.children[1].type = "Hash"
    /\ result.node.children[2].type = "Float"

\* The input has an opening bracket or brace directly followed by its closer.
EmptyCompound ==
    \E i \in 1..(Len(input) - 1) :
        \/ input[i].kind = "BrackOpen" /\ input[i + 1].kind = "BrackClose"
        \/ input[i].kind = "CurlyOpen" /\ input[i + 1].kind = "CurlyClose"

\* C3: `[` directly followed by `]`, or `{` by `}`, makes parse fail; every
\* Array and Hash node of a tree parse returns has at least one element.
C3_NoEmptyCompound ==
    Done =>
        /\ EmptyCompound => result.kind = "Err"
        /\ result.kind = "Ok" =>
              LET nodes == Below(result.node)
              IN  \A j \in 1..Len(nodes) :
                      /\ nodes[j].type = "Array" => Len(nodes[j].values) >= 1
                      /\ nodes[j].type = "Hash" => Len(nodes[j].pairs) >= 1

C3_Witness ==
    /\ Done
    /\ EmptyCompound
    /\ Len(input) >= 4
    /\ input[Len(input)].kind = "CurlyClose"
    /\ result = Err("InvalidToken")

\* The latest call of lexer.lex() got a token, from the given call site.
Pulled(site) == last.site = site /\ ~eof /\ pos >= 1

\* The node most recently returned to the frame on top, NoNode if none.
LastReturned ==
    IF ret.kind = "Ok" THEN ret.node
    ELSE IF stack = <<>> \/ ret.kind = "Err" THEN NoNode
    ELSE CASE Top.pc = "colon" -> Top.key
           [] Top.pc = "next" /\ Top.fn = "parse_array" -> Top.items[Len(Top.items)]
           [] Top.pc = "next" /\ Top.fn = "parse_hash" -> Top.items[Len(Top.items)][2]
           [] Top.pc = "loop" /\ Top.items # <<>> -> Top.items[Len(Top.items)]
           [] OTHER -> NoNode

\* The error e was raised and is on its way to the caller of parse, or
\* parse has returned it.
Fails(e) == IF Done THEN result = Err(e) ELSE ret = Err(e)

\* C4: inside an array, the token after an element decides: `,` goes on to
\* another element of the same array, `]` closes the array and an Array
\* node is returned, any other token makes parse fail with InvalidToken.
C4_ArrayAfterElement ==
    Pulled("parse_array") =>
        CASE input[pos].kind = "Comma" ->
                 /\ ~Done /\ ret = NoRet
                 /\ Top.fn = "parse_array" /\ Top.pc = "elem" /\ Top.items # <<>>
          [] input[pos].kind = "BrackClose" ->
                 /\ ~Done
                 /\ LastReturned.type = "Array"
          [] OTHER -> Fails("InvalidToken")

C4_Witness ==
    /\ Done
    /\ Pulled("parse_array")
    /\ input[pos].kind = "Integer"
    /\ input[pos].value = IsizeMaxText
    /\ Len(input) >= 5
    /\ result = Err("InvalidToken")

\* C5: an Integer token pulled where an expression is expected, at any
\* depth, makes parse fail with InvalidTokenValue when its text does not
\* convert to an isize, and yields an Integer node holding the text's value
\* when it does.
C5_IntegerConversion ==
    (Pulled("parse_expression") /\ input[pos].kind = "Integer") =>
        IF input[pos].value \in ValidIntegerTexts
        THEN /\ LastReturned.type = "Integer"
             /\ LastReturned.value = IntegerValue(input[pos].value)
        ELSE Fails("InvalidTokenValue")

C5_Witness ==
    /\ Done
    /\ Pulled("parse_expression")
    /\ Len(input) >= 4
    /\ input[1].kind = "BrackOpen"
    /\ input[2].kind = "CurlyOpen"
    /\ input[pos].kind = "Integer"
    /\ input[pos].value = IsizeMaxPlus1Text
    /\ result = Err("InvalidTokenValue")

\* C6: the pairs of a Hash node are the key : value groups between its
\* braces, as many and in the same order, each key and value built from the
\* tokens of its group; pairs with equal keys are all kept.
C6_HashPairsInSourceOrder ==
    Done =>
        LET placed == PlacedNodes
        IN  \A n \in 1..Len(placed) :
                placed[n].node.type = "Hash" =>
                    LET pairs == placed[n].node.pairs
                        at    == PairStarts(input, placed[n].at + 1)
                    IN  /\ Len(pairs) = Len(at)
                        /\ \A j \in 1..Len(pairs) :
                               /\ BuiltFrom(pairs[j][1], input[at[j][1]])
                               /\ BuiltFrom(pairs[j][2], input[at[j][2]])

C6_Witness ==
    /\ Done
    /\ result.kind = "Ok"
    /\ Len(result.node.children) = 1
    /\ result.node.children[1].type = "Hash"
    /\ LET pairs == result.node.children[1].pairs
       IN  /\ Len(pairs) = 2
           /\ pairs[1][1].type = "Integer"
           /\ pairs[2][1].type = "Integer"
           /\ pairs[1][1].value = pairs[2][1].value
           /\ pairs[1][1].line < pairs[2][1].line

\* C7: the values of an Array node are the elements between its brackets,
\* as many and in the same order, each built from the tokens of its element;
\* three Integer tokens in brackets give Expressions{[Array{[Integer, Integer,
\* Integer]}]} with the three values.
C7_ArrayValuesInSourceOrder ==
    Done =>
        /\ LET placed == PlacedNodes
           IN  \A n \in 1..Len(placed) :
                   placed[n].node.type = "Array" =>
                       LET values == placed[n].node.values
                           at     == ElemStarts(input, placed[n].at + 1)
                       IN  /\ Len(values) = Len(at)
                           /\ \A j \in 1..Len(values) :
                                  BuiltFrom(values[j], input[at[j]])
        /\ ( /\ eof
             /\ [i \in 1..Len(input) |-> input[i].kind] =
                   <<"BrackOpen", "Integer", "Comma", "Integer", "Comma", "Integer",
                     "BrackClose">>
             /\ <<input[2].value, input[4].value, input[6].value>> =
                   <<<<"-","0","7">>, IsizeMaxText, <<"-","0","7">>>> )
           => result = Ok(Expressions(<<Array(
                  <<Integer([neg |-> TRUE, mag |-> <<7>>], LineOf(2), ColumnOf(2)),
                    Integer([neg |-> FALSE, mag |-> IsizeMaxMag], LineOf(4), ColumnOf(4)),
                    Integer([neg |-> TRUE, mag |-> <<7>>], LineOf(6), ColumnOf(6))>>,
                  LineOf(1), ColumnOf(1))>>))

C7_Witness ==
    /\ Done
    /\ result.kind = "Ok"
    /\ Len(result.node.children) = 1
    /\ result.node.children[1].type = "Array"
    /\ LET values == result.node.children[1].values
       IN  /\ Len(values) = 3
           /\ values[1].type = "Integer" /\ values[1].value = [neg |-> TRUE, mag |-> <<7>>]
           /\ values[2].type = "Integer" /\ values[2].value.mag = IsizeMaxMag
           /\ values[3].type = "Integer" /\ values[3].value = [neg |-> TRUE, mag |-> <<7>>]

\* C8: every node of a tree parse returns carries the line and column of
\* the token that introduces it: a scalar those of its literal token, an
\* Array or Hash those of its opening bracket or brace.
C8_PositionFidelity ==
    Done =>
        LET placed == PlacedNodes
        IN  /\ Len(placed) = (IF result.kind = "Ok" THEN Len(Below(result.node)) - 1 ELSE 0)
            /\ \A n \in 1..Len(placed) :
                   /\ placed[n].node.line = input[placed[n].at].line
                   /\ placed[n].node.column = input[placed[n].at].column

C8_Witness ==
    /\ Done
    /\ result.kind = "Ok"
    /\ Len(result.node.children) = 1
    /\ result.node.children[1].type = "Array"
    /\ result.node.children[1].line = 1
    /\ result.node.children[1].column = 3
    /\ result.node.children[1].values[1].type = "Hash"
    /\ result.node.children[1].values[1].column = 5
    /\ result.node.children[1].values[1].pairs[1][2].line = 2

\* C9: an InvalidToken or InvalidTokenValue raised at any depth is what
\* parse returns, as the same error kind and with no tree, whatever was
\* parsed before it.
C9_ErrorPropagatesUnmodified ==
    last.err \in {"InvalidToken", "InvalidTokenValue"} =>
        /\ Fails(last.err)
        /\ Done => result.node = NoNode

C9_Witness ==
    /\ Done
    /\ Len(input) = 4
    /\ input[1].kind = "String"
    /\ input[2].kind = "BrackOpen"
    /\ input[3].kind = "CurlyOpen"
    /\ last.err = "InvalidTokenValue"
    /\ result = Err("InvalidTokenValue")

C11_NoExpressionToken ==
    (Pulled("parse_expression")
        /\ input[pos].kind \in {"BrackClose", "CurlyClose", "Comma", "Colon"})
    => Fails("InvalidToken")

\* `[` x `,` `]`: a trailing comma, rejected
C11_Witness ==
    /\ Done
    /\ Pulled("parse_expression")
    /\ Len(input) = 4
    /\ input[1].kind = "BrackOpen"
    /\ input[3].kind = "Comma"
    /\ input[4].kind = "BrackClose"
    /\ result = Err("InvalidToken")

\* What the tokens pulled inside a hash lead to: after a key only `:` goes
\* on to the value; after a value `,` goes on to another key, `}` returns
\* the Hash node; any other token there makes parse fail with InvalidToken.
HashTokens ==
    /\ Pulled("next_token") =>
          IF input[pos].kind = "Colon"
          THEN /\ ~Done /\ ret = NoRet
               /\ Top.fn = "parse_hash" /\ Top.pc = "value" /\ Top.key # NoNode
          ELSE Fails("InvalidToken")
    /\ Pulled("parse_hash") =>
          CASE input[pos].kind = "Comma" ->
                   /\ ~Done /\ ret = NoRet
                   /\ Top.fn = "parse_hash" /\ Top.pc = "key" /\ Top.items # <<>>
            [] input[pos].kind = "CurlyClose" ->
                   /\ ~Done
                   /\ LastReturned.type = "Hash"
            [] OTHER -> Fails("InvalidToken")

\* A step that leaves the hash on top of the stack open moves it along key,
\* `:`, value, separator, key, ... and records a pair, the key with its
\* value, when the value has been parsed and at no other moment.
HashStep ==
    (stack # <<>> /\ Top.fn = "parse_hash" /\ Len(stack') = Len(stack)) =>
        LET f == Top
            g == stack'[Len(stack')]
        IN  /\ g.fn = "parse_hash"
            /\ g.token = f.token
            /\ <<f.pc, g.pc>> \in
                  {<<"key", "key">>, <<"key", "colon">>, <<"colon", "value">>,
                   <<"value", "value">>, <<"value", "next">>, <<"next", "key">>}
            /\ g.items = IF <<f.pc, g.pc>> = <<"value", "next">>
                         THEN Append(f.items, <<f.key, ret.node>>)
                         ELSE f.items
            /\ (f.pc # g.pc /\ g.pc \in {"colon", "next"}) => ret.kind = "Ok" /\ pos' = pos
            /\ (f.pc # g.pc /\ g.pc \in {"value", "key"}) => pos' = pos + 1

\* C12: inside a hash each pair is parsed in the order key, `:`, value; a
\* token other than `:` after the key makes parse fail with InvalidToken and
\* no pair is recorded for the key; after the value `,` goes on to another
\* pair, `}` closes the hash, any other token fails with InvalidToken.
C12_HashPairOrder == [](HashTokens) /\ [][HashStep]_vars

\* `[` `{` `[` x `]` `,`: the key, an array, was parsed and no `:` follows
C12_Witness ==
    /\ Done
    /\ Pulled("next_token")
    /\ Len(input) = 6
    /\ input[1].kind = "BrackOpen"
    /\ input[2].kind = "CurlyOpen"
    /\ input[3].kind = "BrackOpen"
    /\ input[5].kind = "BrackClose"
    /\ input[6].kind = "Comma"
    /\ result = Err("InvalidToken")

\* The Lexer has produced no token the parser has not pulled, and when an
\* InvalidToken or InvalidTokenValue was raised, the token pulled last is
\* the first one that no stream of complete expressions can have there.
FirstOffendingToken ==
    /\ pos = Len(input)
    /\ last.err \in {"InvalidToken", "InvalidTokenValue"} =>
          /\ ~eof
          /\ pos >= 1
          /\ TopStatus(SubSeq(input, 1, pos - 1), 1) # "malformed"
          /\ TopStatus(input, 1) = "malformed"
          /\ Fails(last.err)

\* A step pulls at most one token, the next of the stream, and leaves the
\* tokens pulled before as they are; once an InvalidToken or
\* InvalidTokenValue was raised, no step asks the Lexer for anything.
SinglePassStep ==
    /\ pos' \in {pos, pos + 1}
    /\ Len(input') >= Len(input)
    /\ SubSeq(input', 1, Len(input)) = input
    /\ last.err \in {"InvalidToken", "InvalidTokenValue"} =>
          /\ pos' = pos
          /\ input' = input
          /\ eof' = eof
          /\ last' = last

\* C13: tokens are pulled one at a time in stream order, without lookahead
\* or backtracking; when parse returns InvalidToken or InvalidTokenValue the
\* last token pulled is the first offending token and none is pulled after.
C13_FailFastSinglePass == [](FirstOffendingToken) /\ [][SinglePassStep]_vars

\* `[` x `,` y z: the error is raised on z, the fifth token, inside the array
C13_Witness ==
    /\ Done
    /\ result = Err("InvalidToken")
    /\ last.site = "parse_array"
    /\ pos = 5
    /\ Len(input) = 5
    /\ input[1].kind = "BrackOpen"
    /\ input[3].kind = "Comma"
    /\ input[5].kind = "String"

\* The state of the array or hash a frame stands for.
CompoundState(f) ==
    IF f.pc = "next" THEN "Expecting-Separator-Or-Close" ELSE "Expecting-Element"

\* The tokens that open and close the compound of a frame, its node variant.
OpenerOf(f) == IF f.fn = "parse_array" THEN "BrackOpen" ELSE "CurlyOpen"
CloserOf(f) == IF f.fn = "parse_array" THEN "BrackClose" ELSE "CurlyClose"
VariantOf(f) == IF f.fn = "parse_array" THEN "Array" ELSE "Hash"
ChildrenOf(node) == IF node.type = "Array" THEN node.values ELSE node.pairs

\* Where in the input the opening token of a frame's compound is.
OpenerAt(f) ==
    CHOOSE i \in 1..Len(input) :
        input[i].line = f.token.line /\ input[i].column = f.token.column

\* The pulled tokens with the closing token of the frame's compound after them.
ClosedNow(f) ==
    Append(SubSeq(input, 1, pos), [NoToken EXCEPT !.kind = CloserOf(f)])

\* Every frame with a call open above it expects an element; the compound on
\* top is in Expecting-Separator-Or-Close exactly when its closing token,
\* coming next, would complete it.
CompoundStates ==
    /\ \A k \in 1..(Len(stack) - 1) : CompoundState(stack[k]) = "Expecting-Element"
    /\ \A k \in 2..Len(stack) :
          /\ stack[k].fn \in {"parse_array", "parse_hash"}
          /\ input[OpenerAt(stack[k])].kind = OpenerOf(stack[k])
    /\ (Len(stack) >= 2 /\ ret = NoRet) =>
          (CompoundState(Top) = "Expecting-Separator-Or-Close"
              <=> ExprEnd(ClosedNow(Top), OpenerAt(Top)) = pos + 2)

\* What one step does to the open compounds.
CompoundStep ==
    /\ \A k \in 2..Min(Len(stack), Len(stack')) :
          LET f == stack[k]
              g == stack'[k]
              from == CompoundState(f)
              to == CompoundState(g)
          IN  /\ g.fn = f.fn
              /\ g.token = f.token
              /\ from = to => g.items = f.items
              /\ (from = "Expecting-Separator-Or-Close" /\ to = "Expecting-Element") =>
                    /\ k = Len(stack)
                    /\ pos' = pos + 1
                    /\ input'[pos'].kind = "Comma"
                    /\ g.items = f.items
              /\ (from = "Expecting-Element" /\ to = "Expecting-Separator-Or-Close") =>
                    /\ k = Len(stack)
                    /\ pos' = pos
                    /\ ret.kind = "Ok"
                    /\ Len(g.items) = Len(f.items) + 1
    /\ (Len(stack) >= 2 /\ CompoundState(Top) = "Expecting-Separator-Or-Close"
            /\ pos' = pos + 1 /\ input'[pos'].kind = "Comma") =>
          /\ Len(stack') = Len(stack)
          /\ CompoundState(stack'[Len(stack')]) = "Expecting-Element"
    /\ (Len(stack) >= 2 /\ Len(stack') = Len(stack) - 1 /\ ret'.kind = "Ok") =>
          /\ CompoundState(Top) = "Expecting-Separator-Or-Close"
          /\ pos' = pos + 1
          /\ input'[pos'].kind = CloserOf(Top)
          /\ ret'.node.type = VariantOf(Top)
          /\ ChildrenOf(ret'.node) = Top.items
          /\ ExprEnd(input', OpenerAt(Top)) = pos' + 1

\* C14: an open array or hash alternates between Expecting-Element and
\* Expecting-Separator-Or-Close; a closing token is accepted only in
\* Expecting-Separator-Or-Close and only the one of the compound's own kind,
\* `,` there returns the compound to Expecting-Element, and the compound's
\* node is returned only when every expression inside it is complete.
C14_CompoundAlternation == [](CompoundStates) /\ [][CompoundStep]_vars

\* `[` 7 `,` `{` 7 `:` 7 `}` `]`
C14_Witness ==
    /\ Len(stack) = 1
    /\ ret.kind = "Ok"
    /\ ret.node.type = "Array"
    /\ Len(ret.node.values) = 2
    /\ ret.node.values[2].type = "Hash"
    /\ pos = 9

\* C15: parse never returns the error EndOfInput: its result is
\* Ok(Expressions), Err(InvalidToken) or Err(InvalidTokenValue), and an
\* EndOfInput raised at any depth, by any call of the Lexer, ends in Ok.
C15_NeverEndOfInput ==
    Done =>
        /\ result # Err("EndOfInput")
        /\ \/ result.kind = "Ok" /\ result.node.type = "Expressions"
           \/ result = Err("InvalidToken")
           \/ result = Err("InvalidTokenValue")
        /\ (eof \/ last.err = "EndOfInput") =>
              /\ eof
              /\ last.err = "EndOfInput"
              /\ result.kind = "Ok"

\* `[` `{` x `:` `[` y and the input ends: EndOfInput is raised three calls deep
C15_Witness ==
    /\ Done
    /\ eof
    /\ last = [site |-> "parse_array", err |-> "EndOfInput"]
    /\ Len(input) = 6
    /\ input[1].kind = "BrackOpen"
    /\ input[2].kind = "CurlyOpen"
    /\ input[4].kind = "Colon"
    /\ input[5].kind = "BrackOpen"
    /\ result.kind = "Ok"

\* Where the top-level array or hash that s ends inside starts, reading the
\* top-level expressions from s[i] on; 0 when s does not end inside one.
RECURSIVE OpenTopAt(_, _)
OpenTopAt(s, i) ==
    LET e == ExprEnd(s, i)
    IN  IF e = -1 /\ i <= Len(s) THEN i
        ELSE IF e <= 0 THEN 0
        ELSE OpenTopAt(s, e)

\* C16: when the input ends inside a top-level array or hash and no
\* InvalidToken or InvalidTokenValue came before, parse returns
\* Ok(Expressions) whose children are the top-level expressions completed
\* before the opening token of that compound, and no node of the tree comes
\* from that token or a later one; `1 [ 2` gives the single child Integer(1).
C16_OpenCompoundDropped ==
    (Done /\ eof /\ TopStatus(input, 1) = "open") =>
        LET at == TopStarts(input, 1)
            open == OpenTopAt(input, 1)
        IN  /\ result.kind = "Ok"
            /\ result.node.type = "Expressions"
            /\ Len(result.node.children) = Len(at)
            /\ \A j \in 1..Len(at) :
                   /\ at[j] < open
                   /\ BuiltFrom(result.node.children[j], input[at[j]])
            /\ LET nodes == Below(result.node)
               IN  \A j \in 2..Len(nodes) :
                       \E i \in 1..(open - 1) :
                           /\ nodes[j].line = input[i].line
                           /\ nodes[j].column = input[i].column
            /\ (Len(input) = 3 /\ input[1].kind = "Integer"
                    /\ input[2].kind = "BrackOpen" /\ input[3].kind = "Integer") =>
                   result = Ok(Expressions(<<Integer(IntegerValue(input[1].value),
                                                     input[1].line, input[1].column)>>))

\* 7 `[` 7 and the input ends
C16_Witness ==
    /\ Done
    /\ eof
    /\ Len(input) = 3
    /\ input[1].kind = "Integer"
    /\ input[1].value = <<"7">>
    /\ input[2].kind = "BrackOpen"
    /\ input[3].kind = "Integer"
    /\ result.kind = "Ok"
    /\ Len(result.node.children) = 1

\* How many of the pulled tokens open an array or a hash.
OpenersPulled ==
    Cardinality({i \in 1..pos : input[i].kind \in {"BrackOpen", "CurlyOpen"}})

\* The Lexer was asked at most once per token and once more for 'no token',
\* after which no call of it is pending; the calls of parse_array and
\* parse_hash in progress are no more than the opening tokens pulled.
PullsAndDepth ==
    /\ pos <= Len(input)
    /\ Len(input) <= LenBound(sort)
    /\ pos + (IF eof THEN 1 ELSE 0) <= Len(input) + 1
    /\ eof => (Done \/ ret = Err("EndOfInput"))
    /\ stack # <<>> => Len(stack) - 1 <= OpenersPulled

\* A step of a loop or of parse_expression that has no return to handle asks
\* the Lexer, and gets the next token or the first 'no token'; a step that
\* handles a return goes on to ask the Lexer or returns itself.
PullOrReturn ==
    /\ (stack # <<>> /\ ret = NoRet) =>
          /\ ~eof
          /\ \/ pos' = pos + 1 /\ eof' = eof
             \/ pos' = pos /\ eof'
    /\ (stack # <<>> /\ ret # NoRet) =>
          /\ pos' = pos
          /\ eof' = eof
          /\ \/ ret' = NoRet /\ Len(stack') = Len(stack) /\ ~eof
             \/ ret' = ret /\ Len(stack') = Len(stack) - 1
             \/ Done' /\ stack' = <<>>

\* C17: parse terminates: every step pulls a token, gets the one 'no token'
\* answer or is on the way to a return, the Lexer is asked no more than the
\* length of the stream plus one times, and the depth of the calls is no
\* more than the number of opening tokens pulled.
C17_Terminates == <>Done /\ [](PullsAndDepth) /\ [][PullOrReturn]_vars

\* `[` `[` `[` 7 and the input ends: three calls of parse_array in progress
C17_Witness ==
    /\ Len(stack) = 4
    /\ OpenersPulled = 3
    /\ eof
    /\ pos = 4
    /\ Len(input) = 4

\* C18: parse returns Ok only after the Lexer has answered 'no token', which
\* was its latest answer: every token of the stream was pulled, and the
\* stream has no token after the ones the tree was built from.
C18_OkOnlyAtEndOfInput ==
    (Done /\ result.kind = "Ok") =>
        /\ eof
        /\ last.err = "EndOfInput"
        /\ pos = Len(input)
        /\ TopStatus(input, 1) # "malformed"
        /\ LexOutcomes = {None}

\* `[` x `]` y and the input ends
C18_Witness ==
    /\ Done
    /\ eof
    /\ pos = 4
    /\ result.kind = "Ok"
    /\ Len(result.node.children) = 2
    /\ result.node.children[1].type = "Array"
    /\ result.node.children[2].type = "String"

====
